---- MODULE Spec2Model ----
(***************************************************************************)
(* Incremental-load / merge subsystem of the Snowflake-dbt-Prefect         *)
(* platform: write_dataframe and merge_dataframe                           *)
(* (ingestion/utils/snowflake_connector.py), the watermark resolvers and   *)
(* the incremental ingestion runs (ingestion/sources/*.py), and the        *)
(* Prefect flows and tasks that run them, dbt and the validation           *)
(* (orchestration/flows/*.py, orchestration/tasks/*.py).                   *)
(*                                                                         *)
(* A table is a bag of rows (a function from rows to multiplicities): SQL  *)
(* tables carry no uniqueness constraint.  Rows are restricted to the      *)
(* loaded columns (df.columns); the audit column _loaded_at is not loaded  *)
(* and is never touched by UPDATE SET, so it is left out.  Every           *)
(* cursor.execute / executemany is a call to the warehouse that either     *)
(* succeeds or raises; a statement that raises has no effect (statements   *)
(* are atomic and auto-committed).                                         *)
(***************************************************************************)
EXTENDS Integers, Sequences, FiniteSets, TLC

VARIABLES
    target,    \* the table write_dataframe / merge_dataframe act on
    last,      \* record of the most recent finished call (history)
    now,       \* today's date (days since 1970-01-01), read by datetime.now()
    fx_table,  \* RAW.EXCHANGE_RATES.DAILY_RATES
    mp_table,  \* RAW.MARKET_DATA.DAILY_PRICES
    run,       \* the ingestion script in progress, or the last one finished
    chunker,   \* the chunk loop of ingest_exchange_rates over a long range
    tasks,     \* the three ingestion task runs of ingestion_flow
    dbt,       \* the four dbt task runs of dbt_flow
    pipeline,  \* the flow runs: full_pipeline_flow and its two subflows
    validation, \* the run of validate_row_counts in progress, or the last one
    session,   \* a Snowflake session issuing merges: clock, temporary tables
    txrun      \* the run of ingest_transactions in progress, or the last one

engineVars == <<target, last>>
ingestVars == <<now, fx_table, mp_table, run>>
chunkVars == <<chunker>>
orchVars == <<tasks, dbt, pipeline>>
sideVars == <<validation, session, txrun>>
vars == <<target, last, now, fx_table, mp_table, run, chunker, tasks, dbt,
          pipeline, validation, session, txrun>>

-----------------------------------------------------------------------------
(* Bounds of the model *)
MaxBatch == 2      \* longest DataFrame handed to a call
MaxRows == 2       \* cap on the number of rows of a table
MaxDay == 2        \* days after DEFAULT_START_DATE the calendar runs to
MaxRange == 740    \* days after DEFAULT_START_DATE the chunk loop runs to

(* INGESTION_BATCH_SIZE: rows per executemany (config.py:24, env-configurable;
   set small so that a DataFrame spans several batches) *)
BATCH_SIZE == 1

-----------------------------------------------------------------------------
(* Generic two-column table: one key column "k", one value column "v" *)
KeyVals == {"k1", "k2"}
ValVals == {"a", "b"}
Rows == [k : KeyVals, v : ValVals]
COLUMNS == {"k", "v"}

RECURSIVE SumOver(_, _)
SumOver(f, S) ==
    IF S = {} THEN 0
    ELSE LET x == CHOOSE y \in S : TRUE IN f[x] + SumOver(f, S \ {x})

Size(tbl) == SumOver(tbl, DOMAIN tbl)

EmptyTable(universe) == [r \in universe |-> 0]

SeqToSet(s) == {s[i] : i \in DOMAIN s}

\* DataFrames the callers build: one row per key (fetchers emit one row per
\* natural key: JSON object keys, a date index)
Batches ==
    {s \in UNION {[1..n -> Rows] : n \in 0..MaxBatch} :
        \A i, j \in DOMAIN s : i # j => s[i].k # s[j].k}

\* merge_keys arguments: None/[] (falsy), the key column, every column
MergeKeySets == {{}, {"k"}, {"k", "v"}}

Modes == {"append", "truncate"}

-----------------------------------------------------------------------------
(* snowflake_connector.py *)

\* df.empty
DfEmptyNever(df) == FALSE
DfEmpty(df) == Len(df) = 0

\* not merge_keys
KeysMissingNever(merge_keys) == FALSE
KeysMissing(merge_keys) == merge_keys = {}

\* range(0, len(rows), BATCH_SIZE)
NumBatches(n) == (n + BATCH_SIZE - 1) \div BATCH_SIZE

Repeat(x, n) == [i \in 1..n |-> x]

\* ON target.k = source.k AND ...
Matches(t, s, merge_keys) == \A c \in merge_keys : t[c] = s[c]

\* df.columns (an empty DataFrame() has none)
Columns(df) == IF Len(df) = 0 THEN {} ELSE DOMAIN df[1]

\* non_key_columns = [c for c in df.columns if c not in merge_keys]
non_key_columns(cols, merge_keys) == cols \ merge_keys

\* WHEN MATCHED THEN UPDATE SET target.c = source.c for the non-key columns
UpdateRowKeepTarget(t, s, merge_keys) == t
UpdateRow(t, s, merge_keys) ==
    [c \in DOMAIN t |-> IF c \in merge_keys THEN t[c] ELSE s[c]]

\* The MERGE text is well-formed only with a join condition and a non-empty
\* UPDATE SET list
MergeSqlValid(cols, merge_keys) ==
    /\ merge_keys # {}
    /\ merge_keys \subseteq cols
    /\ non_key_columns(cols, merge_keys) # {}

\* the target row t after the MERGE (staging rows have pairwise distinct keys)
MergedRow(t, stg, merge_keys) ==
    IF \E i \in DOMAIN stg : Matches(t, stg[i], merge_keys)
    THEN UpdateRow(t, stg[CHOOSE i \in DOMAIN stg : Matches(t, stg[i], merge_keys)],
                   merge_keys)
    ELSE t

\* WHEN NOT MATCHED: no target row joins the staging row
NotMatchedAlways(tgt, s, merge_keys) == TRUE
NotMatched(tgt, s, merge_keys) ==
    \A t \in DOMAIN tgt : tgt[t] > 0 => ~Matches(t, s, merge_keys)

\* MERGE INTO fqn USING temp_table ON ... WHEN MATCHED THEN UPDATE
\* WHEN NOT MATCHED THEN INSERT: one atomic statement
MergeIntoReplace(tgt, stg, merge_keys) ==
    [r \in DOMAIN tgt |-> Cardinality({i \in DOMAIN stg : stg[i] = r})]
MergeInto(tgt, stg, merge_keys) ==
    [r \in DOMAIN tgt |->
        SumOver(tgt, {t \in DOMAIN tgt : MergedRow(t, stg, merge_keys) = r})
        + Cardinality({i \in DOMAIN stg :
                          stg[i] = r /\ NotMatched(tgt, stg[i], merge_keys)})]

\* INSERT INTO fqn VALUES ...: executemany of a list of rows
InsertRows(tgt, rows) ==
    [r \in DOMAIN tgt |-> tgt[r] + Cardinality({i \in DOMAIN rows : rows[i] = r})]

\* statements of the try block of merge_dataframe, in order
MergePlan(df) ==
    <<"CREATE">> \o Repeat("INSERT", NumBatches(Len(df))) \o <<"MERGE", "DROP">>

Outcome(result, value, error, tgt, stmts, cursor, staging) ==
    [result |-> result, value |-> value, error |-> error, target |-> tgt,
     stmts |-> stmts, cursor |-> cursor, staging |-> staging]

\* merge_dataframe(conn, df, table_name, schema, database, merge_keys).
\* failAt: index in MergePlan(df) of the first statement that raises (0: none);
\* cleanupFails: the DROP issued by the except handler raises too.
merge_dataframe(tgt, df, merge_keys, failAt, cleanupFails) ==
    IF DfEmpty(df)
    THEN Outcome("returned", 0, "none", tgt, <<>>, FALSE, FALSE)
    ELSE IF KeysMissing(merge_keys)
    THEN Outcome("raised", 0, "ValueError", tgt, <<>>, FALSE, FALSE)
    ELSE
      LET plan == MergePlan(df)
          mergeIdx == Len(plan) - 1
          fail == IF ~MergeSqlValid(Columns(df), merge_keys)
                     /\ (failAt = 0 \/ failAt > mergeIdx)
                  THEN mergeIdx ELSE failAt
          created == fail = 0 \/ fail > 1
          merged == fail = 0 \/ fail > mergeIdx
          dropped == fail = 0 \/ ~cleanupFails
          issued == IF fail = 0 THEN plan
                    ELSE SubSeq(plan, 1, fail) \o <<"DROP">>
      IN  Outcome(IF fail = 0 THEN "returned" ELSE "raised",
                  IF fail = 0 THEN Len(df) ELSE 0,
                  IF fail = 0 THEN "none" ELSE "Exception",
                  IF merged THEN MergeInto(tgt, df, merge_keys) ELSE tgt,
                  issued, TRUE, created /\ ~dropped)

\* statements of the try block of write_dataframe, in order
WritePlan(df, mode) ==
    (IF mode = "truncate" THEN <<"TRUNCATE">> ELSE <<>>)
    \o Repeat("INSERT", NumBatches(Len(df)))

Min(a, b) == IF a < b THEN a ELSE b

\* write_dataframe(conn, df, table_name, schema, database, mode).
\* failAt: index in WritePlan(df, mode) of the statement that raises (0: none).
write_dataframe(tgt, df, mode, failAt) ==
    IF DfEmpty(df)
    THEN Outcome("returned", 0, "none", tgt, <<>>, FALSE, FALSE)
    ELSE
      LET plan == WritePlan(df, mode)
          pre == IF mode = "truncate" THEN 1 ELSE 0
          truncated == mode = "truncate" /\ (failAt = 0 \/ failAt > 1)
          batchesDone == IF failAt = 0 THEN NumBatches(Len(df))
                         ELSE IF failAt > pre THEN failAt - pre - 1 ELSE 0
          total_inserted == Min(batchesDone * BATCH_SIZE, Len(df))
          base == IF truncated THEN EmptyTable(DOMAIN tgt) ELSE tgt
      IN  Outcome(IF failAt = 0 THEN "returned" ELSE "raised",
                  IF failAt = 0 THEN total_inserted ELSE 0,
                  IF failAt = 0 THEN "none" ELSE "Exception",
                  InsertRows(base, SubSeq(df, 1, total_inserted)),
                  IF failAt = 0 THEN plan ELSE SubSeq(plan, 1, failAt),
                  TRUE, FALSE)

-----------------------------------------------------------------------------
(* The engine as a state machine: any caller, any DataFrame, any failure *)

NoCall ==
    [op |-> "none", df |-> <<>>, keys |-> {}, mode |-> "append",
     result |-> "returned", value |-> 0, error |-> "none", stmts |-> <<>>,
     cursor |-> FALSE, staging |-> FALSE, pre |-> EmptyTable(Rows),
     rerun |-> FALSE]

Finished(op, df, keys, mode, out, pre, rerun) ==
    [op |-> op, df |-> df, keys |-> keys, mode |-> mode,
     result |-> out.result, value |-> out.value, error |-> out.error,
     stmts |-> out.stmts, cursor |-> out.cursor, staging |-> out.staging,
     pre |-> pre, rerun |-> rerun]

EngineInit ==
    /\ target = EmptyTable(Rows)
    /\ last = NoCall

\* one call of merge_dataframe; rerun records that the previous call was a
\* successful merge of the same non-empty DataFrame on the same keys
CallMerge ==
    \E df \in Batches, mk \in MergeKeySets, failAt \in 0..(MaxBatch + 3),
       cleanupFails \in BOOLEAN :
        /\ failAt <= Len(MergePlan(df))
        /\ (DfEmpty(df) \/ KeysMissing(mk)) => failAt = 0
        /\ failAt = 0 => ~cleanupFails
        /\ LET out == merge_dataframe(target, df, mk, failAt, cleanupFails)
           IN  /\ Size(out.target) <= MaxRows
               /\ target' = out.target
               /\ last' = Finished("merge", df, mk, "append", out, target,
                                   /\ last.op = "merge"
                                   /\ last.result = "returned"
                                   /\ last.df = df
                                   /\ last.keys = mk
                                   /\ df # <<>>)
        /\ UNCHANGED <<ingestVars, chunkVars, orchVars, sideVars>>

\* one call of write_dataframe
CallWrite ==
    \E df \in Batches, mode \in Modes, failAt \in 0..(MaxBatch + 1) :
        /\ failAt <= Len(WritePlan(df, mode))
        /\ DfEmpty(df) => failAt = 0
        /\ LET out == write_dataframe(target, df, mode, failAt)
           IN  /\ Size(out.target) <= MaxRows
               /\ target' = out.target
               /\ last' = Finished("write", df, {}, mode, out, target, FALSE)
        /\ UNCHANGED <<ingestVars, chunkVars, orchVars, sideVars>>

-----------------------------------------------------------------------------
(* Dates.  A DATE value is a day number (days since 1970-01-01); a
   "%Y-%m-%d" string is the triple <<year, month, day>> of its zero-padded
   fields, so that comparing two such strings is comparing the triples
   lexicographically. *)

\* strftime("%Y-%m-%d") of a timestamp at midnight of day z
Strftime(z) ==
    LET zz == z + 719468
        era == zz \div 146097
        doe == zz - era * 146097
        yoe == (doe - doe \div 1460 + doe \div 36524 - doe \div 146096) \div 365
        doy == doe - (365 * yoe + yoe \div 4 - yoe \div 100)
        mp == (5 * doy + 2) \div 153
        d == doy - (153 * mp + 2) \div 5 + 1
        m == IF mp < 10 THEN mp + 3 ELSE mp - 9
        y == yoe + era * 400 + (IF m <= 2 THEN 1 ELSE 0)
    IN  <<y, m, d>>

\* pd.to_datetime("YYYY-MM-DD")
ToDatetime(str) ==
    LET y == str[1] - (IF str[2] <= 2 THEN 1 ELSE 0)
        era == y \div 400
        yoe == y - era * 400
        mp == IF str[2] > 2 THEN str[2] - 3 ELSE str[2] + 9
        doy == (153 * mp + 2) \div 5 + str[3] - 1
        doe == yoe * 365 + yoe \div 4 - yoe \div 100 + doy
    IN  era * 146097 + doe - 719468

\* str >= str on "%Y-%m-%d" strings
StrGE(a, b) ==
    \/ a[1] > b[1]
    \/ a[1] = b[1] /\ a[2] > b[2]
    \/ a[1] = b[1] /\ a[2] = b[2] /\ a[3] >= b[3]

\* DEFAULT_START_DATE = "2020-01-01" (both incremental sources)
DEFAULT_START_DATE == <<2020, 1, 1>>

\* MAX_DAYS_PER_REQUEST
MAX_DAYS_PER_REQUEST == 365

\* + timedelta(days=1)
NextDaySame(d) == d
NextDay(d) == d + 1

\* the calendar of the model: the dates the sources can hold data for
Day0 == ToDatetime(DEFAULT_START_DATE)
Days == Day0..(Day0 + MaxDay)

-----------------------------------------------------------------------------
(* ingestion/config.py and the target tables *)

FX_BASE_CURRENCY == "EUR"
\* two of the six configured target currencies
FX_TARGET_CURRENCIES == {"USD", "GBP"}
\* two of the eight configured tickers
MARKET_TICKERS == <<"AAPL", "MSFT">>

\* LOAD_COLUMNS of DAILY_RATES
FxRows ==
    [base_currency : {FX_BASE_CURRENCY}, target_currency : FX_TARGET_CURRENCIES,
     date : Days, rate : {"rate"}]

\* LOAD_COLUMNS of DAILY_PRICES (open .. volume stand as one column)
MpRows == [ticker : SeqToSet(MARKET_TICKERS), date : Days, close : {"ohlcv"}]

FX_MERGE_KEYS == {"base_currency", "target_currency", "date"}
MP_MERGE_KEYS == {"ticker", "date"}

-----------------------------------------------------------------------------
(* Watermark resolvers *)

\* SQL NULL / Python None: the empty set; a value d is {d}
None == {}

Max(S) == CHOOSE x \in S : \A y \in S : y <= x

\* SELECT MAX(date) FROM table [WHERE ticker = %s]: NULL over no row
SelectMaxDate(tbl, rows) ==
    LET ds == {r.date : r \in {x \in rows : tbl[x] > 0}}
    IN  IF ds = {} THEN None ELSE {Max(ds)}

Resolved(raised, value) == [raised |-> raised, value |-> value]

\* what the except clause of get_last_loaded_date does with a failed query
ReraiseQueryFailure(queryFails) == queryFails
SwallowQueryFailure(queryFails) == FALSE

\* get_last_loaded_date(conn) of ingest_exchange_rates.py
fx_get_last_loaded_date(tbl, queryFails) ==
    IF queryFails
    THEN Resolved(SwallowQueryFailure(queryFails), DEFAULT_START_DATE)
    ELSE LET last_date == SelectMaxDate(tbl, DOMAIN tbl)
         IN  IF last_date # None
             THEN Resolved(FALSE, Strftime(NextDay(Max(last_date))))
             ELSE Resolved(FALSE, DEFAULT_START_DATE)

\* get_last_loaded_date(conn, ticker) of ingest_market_prices.py
mp_get_last_loaded_date(tbl, ticker, queryFails) ==
    IF queryFails
    THEN Resolved(SwallowQueryFailure(queryFails), DEFAULT_START_DATE)
    ELSE LET last_date ==
                 SelectMaxDate(tbl, {r \in DOMAIN tbl : r.ticker = ticker})
         IN  IF last_date # None
             THEN Resolved(FALSE, Strftime(NextDay(Max(last_date))))
             ELSE Resolved(FALSE, DEFAULT_START_DATE)

-----------------------------------------------------------------------------
(* Source fetchers: what the remote API answers is not decided here *)

\* a DataFrame holding the rows of a set, in some order
RECURSIVE SetToSeq(_)
SetToSeq(S) ==
    IF S = {} THEN <<>>
    ELSE LET x == CHOOSE y \in S : TRUE IN <<x>> \o SetToSeq(S \ {x})

\* what a fetcher hands back: the DataFrame, which is all the caller sees;
\* `failed` remembers that the request (or the parsing) raised inside it
Fetched(failed, df) == [failed |-> failed, df |-> df]

\* the except clauses of the two fetchers: log.error(...) and
\* return pd.DataFrame()
OnFetchError == Fetched(TRUE, <<>>)

\* fetch_exchange_rates(start_date, end_date): pd.DataFrame() on a request or
\* parse error and when the API has no rate; otherwise one row per returned
\* date and currency.  The API answers start..end with the dates it has
\* rates for, both ends included, none later than today.
fetch_exchange_rates(start_date, end_date, today) ==
    LET lo == ToDatetime(start_date)
        hi == ToDatetime(end_date)
        avail == {d \in Days : lo <= d /\ d <= hi /\ d <= today}
    IN  {Fetched(FALSE, SetToSeq({r \in FxRows : r.date \in ds})) :
            ds \in SUBSET avail} \cup {OnFetchError}

\* fetch_ticker_data(ticker, start_date, end_date): pd.DataFrame() on any
\* error and when history() is empty; otherwise one row per trading day of
\* [start, end)
fetch_ticker_data(ticker, start_date, end_date) ==
    LET lo == ToDatetime(start_date)
        hi == ToDatetime(end_date)
        avail == {d \in Days : lo <= d /\ d < hi}
    IN  {Fetched(FALSE, SetToSeq({r \in MpRows : r.ticker = ticker
                                                  /\ r.date \in ds})) :
            ds \in SUBSET avail} \cup {OnFetchError}

Request(ticker, start_date, end_date) ==
    [ticker |-> ticker, start |-> start_date, end |-> end_date]

\* chunk_end = min(chunk_start + timedelta(days=MAX_DAYS_PER_REQUEST),
\*                 chunk_end_limit)
ChunkEnd(chunk_start, chunk_end_limit) ==
    Min(chunk_start + MAX_DAYS_PER_REQUEST, chunk_end_limit)

\* chunk_start = chunk_end + timedelta(days=1)
NextChunkStart(chunk_end) == chunk_end + 1

-----------------------------------------------------------------------------
(* The ingestion scripts, step by step *)

IdleRun ==
    [src |-> "none", pc |-> "idle", result |-> "none", raised_at |-> "none",
     conn |-> "none", end_date |-> DEFAULT_START_DATE,
     start_date |-> DEFAULT_START_DATE, wm_failed |-> FALSE,
     chunk_start |-> Day0, i |-> 1, fetches |-> <<>>, noop |-> FALSE,
     success_count |-> 0, fail_count |-> 0, fetch_failed |-> FALSE,
     fetched |-> {}, closes |-> 0]

IngestIdle ==
    /\ now = Day0
    /\ fx_table = EmptyTable(FxRows)
    /\ mp_table = EmptyTable(MpRows)
    /\ run = IdleRun

\* midnight passes
Tick ==
    /\ now < Day0 + MaxDay
    /\ now' = now + 1
    /\ UNCHANGED <<fx_table, mp_table, run>>
    /\ UNCHANGED <<engineVars, chunkVars, orchVars, sideVars>>

\* the finally clause of get_snowflake_connection: if conn: conn.close()
CloseConnectionSkipped(r) == r
CloseConnection(r) ==
    IF r.conn = "open"
    THEN [r EXCEPT !.conn = "closed", !.closes = @ + 1]
    ELSE r

\* leaving the with-block by an exception: conn.close() and the script raises
Raised(r, where) ==
    [CloseConnection(r) EXCEPT !.pc = "done", !.result = "raised",
                               !.raised_at = where]

\* leaving the with-block normally
Returned(r) ==
    [CloseConnection(r) EXCEPT !.pc = "done", !.result = "returned"]

\* end_date = now(); with get_snowflake_connection(...); CREATE TABLE IF NOT
\* EXISTS.  setup: what happens to connect() and to the DDL
Started(src, pc, today, setup) ==
    LET r == [IdleRun EXCEPT !.src = src, !.result = "running",
                             !.end_date = Strftime(today)]
    IN  IF setup = "connect_fails" THEN Raised(r, "connect")
        ELSE IF setup = "ddl_fails"
        THEN Raised([r EXCEPT !.conn = "open"], "ddl")
        ELSE [r EXCEPT !.conn = "open", !.pc = pc]

Setups == {"ok", "connect_fails", "ddl_fails"}

\* ingest_exchange_rates(): lines 157-164
FxStart ==
    /\ run.pc \in {"idle", "done"}
    /\ \E setup \in Setups : run' = Started("fx", "fx_resolve", now, setup)
    /\ UNCHANGED <<now, fx_table, mp_table>>
    /\ UNCHANGED <<engineVars, chunkVars, orchVars, sideVars>>

\* start_date = get_last_loaded_date(conn)
FxResolve ==
    /\ run.pc = "fx_resolve"
    /\ \E queryFails \in BOOLEAN :
          LET got == fx_get_last_loaded_date(fx_table, queryFails)
          IN  run' = IF got.raised
                     THEN Raised([run EXCEPT !.wm_failed = queryFails], "resolve")
                     ELSE [run EXCEPT !.pc = "fx_check",
                                      !.start_date = got.value,
                                      !.wm_failed = queryFails]
    /\ UNCHANGED <<now, fx_table, mp_table>>
    /\ UNCHANGED <<engineVars, chunkVars, orchVars, sideVars>>

\* if start_date >= end_date: return; else set up the chunk loop
FxCheck ==
    /\ run.pc = "fx_check"
    /\ run' = IF StrGE(run.start_date, run.end_date)
              THEN Returned([run EXCEPT !.noop = TRUE])
              ELSE [run EXCEPT !.pc = "fx_loop",
                               !.chunk_start = ToDatetime(run.start_date)]
    /\ UNCHANGED <<now, fx_table, mp_table>>
    /\ UNCHANGED <<engineVars, chunkVars, orchVars, sideVars>>

\* one pass of `while chunk_start < chunk_end_limit`: fetch the chunk, merge
\* it when it is not empty, move chunk_start; or leave the loop and return.
\* (Whether the handler's DROP succeeds changes neither the table nor the
\* result of merge_dataframe, the two things the scripts see of it.)
FxChunk ==
    /\ run.pc = "fx_loop"
    /\ LET chunk_end_limit == ToDatetime(run.end_date)
           chunk_end == ChunkEnd(run.chunk_start, chunk_end_limit)
           req == Request("", Strftime(run.chunk_start), Strftime(chunk_end))
       IN  IF run.chunk_start < chunk_end_limit
           THEN \E got \in fetch_exchange_rates(req.start, req.end, now) :
                \E failAt \in 0..Len(MergePlan(got.df)) :
                  LET df == got.df
                      out == merge_dataframe(fx_table, df, FX_MERGE_KEYS,
                                            failAt, FALSE)
                      r == [run EXCEPT !.fetches = Append(@, req),
                                       !.fetch_failed = @ \/ got.failed,
                                       !.fetched = @ \cup SeqToSet(df)]
                  IN  /\ DfEmpty(df) => failAt = 0
                      /\ fx_table' = out.target
                      /\ run' = IF out.result = "raised"
                                THEN Raised(r, "merge")
                                ELSE [r EXCEPT !.chunk_start =
                                                 NextChunkStart(chunk_end)]
           ELSE /\ run' = Returned(run)
                /\ fx_table' = fx_table
    /\ UNCHANGED <<now, mp_table>>
    /\ UNCHANGED <<engineVars, chunkVars, orchVars, sideVars>>

\* ingest_market_prices(): lines 160-171
MpStart ==
    /\ run.pc \in {"idle", "done"}
    /\ \E setup \in Setups : run' = Started("mp", "mp_resolve", now, setup)
    /\ UNCHANGED <<now, fx_table, mp_table>>
    /\ UNCHANGED <<engineVars, chunkVars, orchVars, sideVars>>

\* for ticker in MARKET_TICKERS: start_date = get_last_loaded_date(conn, ticker)
\* (an exception is caught by the loop body: fail_count += 1, next ticker);
\* after the last ticker the script returns
MpResolve ==
    /\ run.pc = "mp_resolve"
    /\ IF run.i > Len(MARKET_TICKERS)
       THEN run' = Returned(run)
       ELSE \E queryFails \in BOOLEAN :
              LET got == mp_get_last_loaded_date(mp_table, MARKET_TICKERS[run.i],
                                             queryFails)
              IN  run' = IF got.raised
                         THEN [run EXCEPT !.fail_count = @ + 1, !.i = @ + 1,
                                          !.raised_at = "resolve",
                                          !.wm_failed = queryFails]
                         ELSE [run EXCEPT !.pc = "mp_fetch",
                                          !.start_date = got.value,
                                          !.wm_failed = queryFails]
    /\ UNCHANGED <<now, fx_table, mp_table>>
    /\ UNCHANGED <<engineVars, chunkVars, orchVars, sideVars>>

\* df = fetch_ticker_data(ticker, start_date, end_date); merge it when it is
\* not empty; a failed merge is caught: fail_count += 1, next ticker
MpFetchMerge ==
    /\ run.pc = "mp_fetch"
    /\ LET ticker == MARKET_TICKERS[run.i]
           req == Request(ticker, run.start_date, run.end_date)
       IN  \E got \in fetch_ticker_data(ticker, req.start, req.end) :
           \E failAt \in 0..Len(MergePlan(got.df)) :
             LET df == got.df
                 out == merge_dataframe(mp_table, df, MP_MERGE_KEYS, failAt, FALSE)
                 r == [run EXCEPT !.fetches = Append(@, req), !.i = @ + 1,
                                  !.pc = "mp_resolve",
                                  !.fetch_failed = @ \/ got.failed,
                                  !.fetched = @ \cup SeqToSet(df)]
             IN  /\ DfEmpty(df) => failAt = 0
                 /\ mp_table' = out.target
                 /\ run' = IF out.result = "raised"
                           THEN [r EXCEPT !.fail_count = @ + 1]
                           ELSE [r EXCEPT !.success_count = @ + 1]
    /\ UNCHANGED <<now, fx_table>>
    /\ UNCHANGED <<engineVars, chunkVars, orchVars, sideVars>>

-----------------------------------------------------------------------------
(* The ingestion tasks (orchestration/tasks/ingestion_tasks.py) *)

\* one attempt of ingest_market_prices_task / ingest_exchange_rates_task on
\* the finished script run r: the script is called and, when it returns, the
\* task returns {"source": ..., "status": "completed"}; when the script
\* raises, the exception leaves the task function and the attempt fails
TaskAttempt(r) == IF r.result = "raised" THEN "failed" ELSE "completed"

-----------------------------------------------------------------------------
(* The orchestrator (orchestration/): Prefect task runs and the three flows.
   A task run makes attempts until one succeeds or the retries are used up;
   an attempt that raises or exceeds timeout_seconds is a failed attempt.
   The run-level timeout of full_pipeline_flow is left out. *)

\* retries= of the task decorators (orchestration/config.py)
API_TASK_RETRIES == 3
LOCAL_TASK_RETRIES == 1
DBT_TASK_RETRIES == 1
DBT_TEST_RETRIES == 0

\* retry_delay_seconds= of the task decorators (dbt_test has none: 0)
API_TASK_RETRY_DELAY == 60
LOCAL_TASK_RETRY_DELAY == 30
DBT_TASK_RETRY_DELAY == 30

\* ThreadPoolTaskRunner(max_workers=3)
MAX_WORKERS == 3

\* the ingestion tasks, in the order ingestion_flow submits and awaits them
SOURCES == <<"transactions", "market_prices", "exchange_rates">>

\* the dbt tasks, in the order dbt_flow calls them
DBT_STEPS == <<"dbt_run_staging", "dbt_snapshot", "dbt_run_marts", "dbt_test">>

IngestionRetriesAlike(src) == API_TASK_RETRIES
IngestionRetries(src) ==
    IF src = "transactions" THEN LOCAL_TASK_RETRIES ELSE API_TASK_RETRIES

IngestionRetryDelay(src) ==
    IF src = "transactions" THEN LOCAL_TASK_RETRY_DELAY
    ELSE API_TASK_RETRY_DELAY

DbtRetriesAlike(step) == DBT_TASK_RETRIES
DbtRetries(step) ==
    IF step = "dbt_test" THEN DBT_TEST_RETRIES ELSE DBT_TASK_RETRIES

DbtRetryDelay(step) ==
    IF step = "dbt_test" THEN 0 ELSE DBT_TASK_RETRY_DELAY

\* a task run before it is submitted or called
NoTaskRun ==
    [state |-> "none", attempts |-> 0, data |-> "unchanged", delay |-> 0,
     caught |-> FALSE]

\* the task engine starts an attempt
AttemptStarted(t) == [t EXCEPT !.state = "running", !.attempts = @ + 1]

\* the task engine after an attempt that failed: another attempt after
\* retry_delay_seconds while retries are left, the final state Failed if not
AttemptFailed(t, retries, delay) ==
    IF t.attempts <= retries
    THEN [t EXCEPT !.state = "retrying", !.delay = delay]
    ELSE [t EXCEPT !.state = "failed"]

AttemptCompleted(t) == [t EXCEPT !.state = "completed"]

FinalNever(t) == FALSE
Final(t) == t.state \in {"completed", "failed"}

\* how a call of an ingestion script can end, and what it has done to its
\* target table by then: "loaded" (everything it found is in the table),
\* "partial" (some of it is: a later chunk, ticker or file failed, or the
\* table was truncated and not reloaded), "unchanged"; caught: a merge
\* raised and the script caught it (fail_count of ingest_market_prices)
ScriptOutcome(result, data, caught) ==
    [result |-> result, data |-> data, caught |-> caught]

\* the ticker loop of ingest_market_prices catches what merge_dataframe
\* raises, whatever the merge had done by then; no other script does
MergeFailuresCaught(src) ==
    IF src = "market_prices"
    THEN {ScriptOutcome("returned", d, TRUE) :
             d \in {"loaded", "partial", "unchanged"}}
    ELSE {}

ScriptOutcomes(src) ==
    {ScriptOutcome("returned", "loaded", FALSE),
     ScriptOutcome("returned", "unchanged", FALSE),
     ScriptOutcome("raised", "unchanged", FALSE)}
    \cup (IF src = "transactions" THEN {}
          ELSE {ScriptOutcome("returned", "partial", FALSE)})
    \cup (IF src = "market_prices" THEN {}
          ELSE {ScriptOutcome("raised", "partial", FALSE)})
    \cup MergeFailuresCaught(src)

\* the report an ingestion task returns
Report(src) == [source |-> src, status |-> "completed"]

IdlePipeline ==
    [pc |-> "idle", result |-> "none", error |-> "none",
     stage_results |-> [ingestion |-> "None", dbt |-> "None",
                        validation |-> "None"],
     counts |-> "none", reconciliation |-> "none", summary |-> "none",
     events |-> <<>>,
     ingestion_flow |-> [pc |-> "none", k |-> 1, result |-> "none",
                         results |-> <<>>, error |-> "none"],
     dbt_flow |-> [pc |-> "none", k |-> 1, result |-> "none"]]

OrchIdle ==
    /\ tasks = [src \in SeqToSet(SOURCES) |-> NoTaskRun]
    /\ dbt = [step \in SeqToSet(DBT_STEPS) |-> NoTaskRun]
    /\ pipeline = IdlePipeline

\* full_pipeline_flow() is called: lines 39-49, up to the call of
\* ingestion_flow()
PipelineStart ==
    /\ pipeline.pc = "idle"
    /\ pipeline' = [pipeline EXCEPT !.pc = "ingestion", !.result = "running",
                                    !.ingestion_flow.pc = "submit"]
    /\ UNCHANGED <<tasks, dbt>>
    /\ UNCHANGED <<engineVars, ingestVars, chunkVars, sideVars>>

\* ingestion_flow: ..._task.submit(), three times
Submit ==
    /\ pipeline.ingestion_flow.pc = "submit"
    /\ LET k == pipeline.ingestion_flow.k
       IN  /\ tasks' = [tasks EXCEPT ![SOURCES[k]].state = "pending"]
           /\ pipeline' = IF k < Len(SOURCES)
                          THEN [pipeline EXCEPT !.ingestion_flow.k = k + 1]
                          ELSE [pipeline EXCEPT !.ingestion_flow.pc = "await",
                                                !.ingestion_flow.k = 1]
    /\ UNCHANGED dbt
    /\ UNCHANGED <<engineVars, ingestVars, chunkVars, sideVars>>

\* a worker thread starts an attempt of a submitted task
TaskStart(src) ==
    /\ tasks[src].state \in {"pending", "retrying"}
    /\ Cardinality({s \in DOMAIN tasks : tasks[s].state = "running"})
          < MAX_WORKERS
    /\ tasks' = [tasks EXCEPT ![src] = AttemptStarted(@)]
    /\ UNCHANGED <<dbt, pipeline>>
    /\ UNCHANGED <<engineVars, ingestVars, chunkVars, sideVars>>

\* the attempt ends: the script has returned or raised
TaskEnd(src) ==
    /\ tasks[src].state = "running"
    /\ \E o \in ScriptOutcomes(src) :
          LET t == [tasks[src] EXCEPT
                      !.data = IF o.data = "unchanged" THEN @ ELSE o.data,
                      !.caught = o.caught]
          IN  tasks' = [tasks EXCEPT ![src] =
                           IF TaskAttempt(o) = "completed"
                           THEN AttemptCompleted(t)
                           ELSE AttemptFailed(t, IngestionRetries(src),
                                              IngestionRetryDelay(src))]
    /\ UNCHANGED <<dbt, pipeline>>
    /\ UNCHANGED <<engineVars, ingestVars, chunkVars, sideVars>>

\* future.result() of a task run in its final state: the value the task
\* returned, or its exception raised in the caller
FutureResult(src, t) ==
    IF t.state = "completed"
    THEN [raised |-> FALSE, value |-> Report(src)]
    ELSE [raised |-> TRUE, value |-> src]

\* ingestion_flow: results = [tx_future.result(), mp_future.result(),
\* fx_future.result()], one future at a time, then lines 38-40
Await ==
    /\ pipeline.ingestion_flow.pc = "await"
    /\ LET k == pipeline.ingestion_flow.k
           src == SOURCES[k]
           got == FutureResult(src, tasks[src])
       IN  /\ Final(tasks[src])
           /\ pipeline' =
                IF got.raised
                THEN [pipeline EXCEPT !.ingestion_flow.pc = "done",
                                      !.ingestion_flow.result = "raised",
                                      !.ingestion_flow.error = got.value]
                ELSE IF k < Len(SOURCES)
                THEN [pipeline EXCEPT
                        !.ingestion_flow.k = k + 1,
                        !.ingestion_flow.results = Append(@, got.value)]
                ELSE [pipeline EXCEPT
                        !.ingestion_flow.pc = "done",
                        !.ingestion_flow.result = "returned",
                        !.ingestion_flow.results = Append(@, got.value)]
    /\ UNCHANGED <<tasks, dbt>>
    /\ UNCHANGED <<engineVars, ingestVars, chunkVars, sideVars>>

\* full_pipeline_flow, lines 50-51: ingestion_flow() returned
OnIngestionSuccess(p) ==
    [p EXCEPT !.stage_results.ingestion = "completed",
              !.pc = "dbt", !.dbt_flow.pc = "step"]

\* _log_failure_summary(logger, stage_results, start_time)
LogNothing(p) == p
LogFailureSummary(p) ==
    [p EXCEPT !.events = Append(@, "_log_failure_summary")]

\* full_pipeline_flow, lines 52-57: ingestion_flow() raised; the failure is
\* recorded, the early-exit summary is logged and the exception is re-raised
OnIngestionFailureContinue(p) ==
    [LogFailureSummary(p) EXCEPT !.stage_results.ingestion = "failed",
                                 !.pc = "dbt", !.dbt_flow.pc = "step"]
OnIngestionFailure(p) ==
    [LogFailureSummary(p) EXCEPT !.stage_results.ingestion = "failed",
                                 !.pc = "done", !.result = "raised",
                                 !.error = p.ingestion_flow.error]

AfterIngestion ==
    /\ pipeline.pc = "ingestion"
    /\ pipeline.ingestion_flow.pc = "done"
    /\ pipeline' = IF pipeline.ingestion_flow.result = "raised"
                   THEN OnIngestionFailure(pipeline)
                   ELSE OnIngestionSuccess(pipeline)
    /\ UNCHANGED <<tasks, dbt>>
    /\ UNCHANGED <<engineVars, ingestVars, chunkVars, sideVars>>

\* dbt_flow calls the next dbt task, or the task engine retries it
DbtStart ==
    /\ pipeline.dbt_flow.pc = "step"
    /\ LET step == DBT_STEPS[pipeline.dbt_flow.k]
       IN  /\ dbt[step].state \in {"none", "retrying"}
           /\ dbt' = [dbt EXCEPT ![step] = AttemptStarted(@)]
           /\ pipeline' = IF dbt[step].state = "none"
                          THEN [pipeline EXCEPT !.events = Append(@, step)]
                          ELSE pipeline
    /\ UNCHANGED tasks
    /\ UNCHANGED <<engineVars, ingestVars, chunkVars, sideVars>>

\* _run_dbt_command: subprocess.run(...) has ended with an exit status, or the
\* attempt has timed out
ReturnCodes == {0, 1}

\* dbt_flow after a dbt task call has ended in the state of t: the exception
\* of a failed task leaves dbt_flow, a completed task lets it go on
AfterDbtTaskContinue(f, t) ==
    IF Final(t)
    THEN IF f.k < Len(DBT_STEPS)
         THEN [f EXCEPT !.k = @ + 1]
         ELSE [f EXCEPT !.pc = "done", !.result = "returned"]
    ELSE f
AfterDbtTask(f, t) ==
    IF t.state = "failed"
    THEN [f EXCEPT !.pc = "done", !.result = "raised"]
    ELSE IF t.state = "completed"
    THEN IF f.k < Len(DBT_STEPS)
         THEN [f EXCEPT !.k = @ + 1]
         ELSE [f EXCEPT !.pc = "done", !.result = "returned"]
    ELSE f

DbtEnd ==
    /\ pipeline.dbt_flow.pc = "step"
    /\ LET step == DBT_STEPS[pipeline.dbt_flow.k]
       IN  /\ dbt[step].state = "running"
           /\ \E returncode \in ReturnCodes :
                LET t == IF returncode = 0
                         THEN AttemptCompleted(dbt[step])
                         ELSE AttemptFailed(dbt[step], DbtRetries(step),
                                            DbtRetryDelay(step))
                IN  /\ dbt' = [dbt EXCEPT ![step] = t]
                    /\ pipeline' = [pipeline EXCEPT
                                      !.dbt_flow = AfterDbtTask(@, t)]
    /\ UNCHANGED tasks
    /\ UNCHANGED <<engineVars, ingestVars, chunkVars, sideVars>>

\* where full_pipeline_flow goes on after dbt_flow(): the except clause of
\* lines 64-67 records the failure and falls through to the validation
StageAfterFailedDbtIsLast(result) ==
    IF result = "raised" THEN "final" ELSE "validation"
StageAfterDbt(result) == "validation"

\* full_pipeline_flow, lines 59-67: dbt_flow() returned or raised
AfterDbt ==
    /\ pipeline.pc = "dbt"
    /\ pipeline.dbt_flow.pc = "done"
    /\ pipeline' = [pipeline EXCEPT
                      !.stage_results.dbt =
                          IF pipeline.dbt_flow.result = "raised"
                          THEN "failed" ELSE "completed",
                      !.pc = StageAfterDbt(pipeline.dbt_flow.result)]
    /\ UNCHANGED <<tasks, dbt>>
    /\ UNCHANGED <<engineVars, ingestVars, chunkVars, sideVars>>

\* how validate_row_counts() can end: every rule passed, some rule did not,
\* or the task raised (no connection, timeout)
Reconciliations == {"passed", "mismatch", "raised"}

\* counts = {"_reconciliation_passed": False} of the except clause
CountsOnValidationErrorPassed == "passed"
CountsOnValidationError == "not_passed"

\* full_pipeline_flow, lines 69-77: counts["_reconciliation_passed"]
CountsAfter(reconciliation) ==
    IF reconciliation = "raised" THEN CountsOnValidationError
    ELSE IF reconciliation = "passed" THEN "passed" ELSE "not_passed"

Validate ==
    /\ pipeline.pc = "validation"
    /\ \E reconciliation \in Reconciliations :
          pipeline' = [pipeline EXCEPT
                         !.events = Append(@, "validate_row_counts"),
                         !.reconciliation = reconciliation,
                         !.counts = CountsAfter(reconciliation),
                         !.stage_results.validation =
                             IF reconciliation = "raised"
                             THEN "failed" ELSE "completed",
                         !.pc = "summary"]
    /\ UNCHANGED <<tasks, dbt>>
    /\ UNCHANGED <<engineVars, ingestVars, chunkVars, sideVars>>

\* log_pipeline_summary: the status line
Overall(counts) ==
    IF counts = "passed" THEN "COMPLETED" ELSE "COMPLETED WITH WARNINGS"

\* full_pipeline_flow, line 81
Summary ==
    /\ pipeline.pc = "summary"
    /\ pipeline' = [pipeline EXCEPT
                      !.events = Append(@, "log_pipeline_summary"),
                      !.summary = Overall(pipeline.counts),
                      !.pc = "final"]
    /\ UNCHANGED <<tasks, dbt>>
    /\ UNCHANGED <<engineVars, ingestVars, chunkVars, sideVars>>

\* stage_results["dbt"] and "failed" in str(stage_results["dbt"])
DbtFailureIgnored(stage_results) == FALSE
DbtFailureRecorded(stage_results) ==
    stage_results.dbt # "None" /\ stage_results.dbt = "failed"

\* full_pipeline_flow, lines 83-88
Finish ==
    /\ pipeline.pc = "final"
    /\ pipeline' = IF DbtFailureRecorded(pipeline.stage_results)
                   THEN [pipeline EXCEPT !.pc = "done", !.result = "raised",
                                         !.error = "RuntimeError"]
                   ELSE [pipeline EXCEPT !.pc = "done",
                                         !.result = "returned"]
    /\ UNCHANGED <<tasks, dbt>>
    /\ UNCHANGED <<engineVars, ingestVars, chunkVars, sideVars>>

-----------------------------------------------------------------------------
(* The chunk loop of ingest_exchange_rates over ranges longer than a chunk:
   the same statements as FxCheck and FxChunk, on a calendar of MaxRange
   days and without the contents of the table *)

IdleChunker ==
    [pc |-> "idle", result |-> "none", start_date |-> DEFAULT_START_DATE,
     end_date |-> DEFAULT_START_DATE, chunk_start |-> Day0, fetches |-> <<>>,
     watermark |-> None, answered |-> {}, failed |-> {}]

ChunkerIdle == chunker = IdleChunker

\* how the fetch and the merge of a chunk can go: the request or its parsing
\* raises inside fetch_exchange_rates (an empty DataFrame comes back), the
\* API has no rate for the range (an empty DataFrame again), the rows are
\* merged, or merge_dataframe raises
ChunkOutcomes == {"fetch_failed", "no_rates", "merged", "merge_raised"}

\* MAX(date) of the table once rows up to day d are merged
Advance(watermark, d) ==
    IF watermark = None THEN {d} ELSE {Max(watermark \cup {d})}

\* end_date = now().strftime(...); start_date = get_last_loaded_date(conn);
\* if start_date >= end_date: return; chunk_start = pd.to_datetime(start_date)
ChunkerStart ==
    /\ chunker.pc = "idle"
    /\ \E s \in Days, e \in Day0..(Day0 + MaxRange) :
          LET c == [IdleChunker EXCEPT
                      !.start_date = Strftime(s),
                      !.end_date = Strftime(e),
                      !.watermark = IF s = Day0 THEN None ELSE {s - 1},
                      !.answered = IF s = Day0 THEN {}
                                   ELSE {<<Day0, s - 1>>}]
          IN  chunker' = IF StrGE(c.start_date, c.end_date)
                         THEN [c EXCEPT !.pc = "done", !.result = "returned"]
                         ELSE [c EXCEPT !.pc = "loop", !.result = "running",
                                        !.chunk_start =
                                            ToDatetime(c.start_date)]
    /\ UNCHANGED <<engineVars, ingestVars, orchVars, sideVars>>

\* one pass of `while chunk_start < chunk_end_limit`: the request is issued
\* (whatever comes back, an empty DataFrame included), merge_dataframe may
\* raise, chunk_start moves; or the loop is left and the script returns.
\* The start date drawn by ChunkerStart stands for a table loaded without a
\* gap up to the day before it; the rows of a merged chunk reach its first
\* or its last day.
ChunkerStep ==
    /\ chunker.pc = "loop"
    /\ LET chunk_end_limit == ToDatetime(chunker.end_date)
           chunk_end == ChunkEnd(chunker.chunk_start, chunk_end_limit)
           req == Request("", Strftime(chunker.chunk_start),
                          Strftime(chunk_end))
       IN  IF chunker.chunk_start < chunk_end_limit
           THEN \E o \in ChunkOutcomes, d \in {chunker.chunk_start, chunk_end} :
                  LET days == <<chunker.chunk_start, chunk_end>>
                      c == [chunker EXCEPT
                              !.fetches = Append(@, req),
                              !.failed = IF o = "fetch_failed"
                                         THEN @ \cup {days} ELSE @,
                              !.answered = IF o = "fetch_failed"
                                           THEN @ ELSE @ \cup {days},
                              !.watermark = IF o = "merged"
                                            THEN Advance(@, d) ELSE @]
                  IN  /\ o # "merged" => d = chunk_end
                      /\ chunker' =
                            IF o = "merge_raised"
                            THEN [c EXCEPT !.pc = "done", !.result = "raised"]
                            ELSE [c EXCEPT !.chunk_start =
                                               NextChunkStart(chunk_end)]
           ELSE chunker' = [chunker EXCEPT !.pc = "done",
                                           !.result = "returned"]
    /\ UNCHANGED <<engineVars, ingestVars, orchVars, sideVars>>

-----------------------------------------------------------------------------
(* validate_row_counts (orchestration/tasks/validation_tasks.py), lookup by
   lookup.  Of the tables of ROW_COUNT_QUERIES that no rule mentions (the
   RAW tables and the dimensions) one is kept. *)

ROW_COUNT_TABLES ==
    <<"RAW.TRANSACTIONS.CREDIT_CARD_TRANSACTIONS",
      "ANALYTICS.STAGING.STG_TRANSACTIONS",
      "ANALYTICS.STAGING.STG_MARKET_PRICES",
      "ANALYTICS.STAGING.STG_EXCHANGE_RATES",
      "ANALYTICS.MARTS.FACT_TRANSACTIONS",
      "ANALYTICS.MARTS.FACT_DAILY_PRICES",
      "ANALYTICS.MARTS.FACT_EXCHANGE_RATES">>

RECONCILIATION_RULES ==
    <<[source |-> "ANALYTICS.STAGING.STG_TRANSACTIONS",
       target |-> "ANALYTICS.MARTS.FACT_TRANSACTIONS"],
      [source |-> "ANALYTICS.STAGING.STG_MARKET_PRICES",
       target |-> "ANALYTICS.MARTS.FACT_DAILY_PRICES"],
      [source |-> "ANALYTICS.STAGING.STG_EXCHANGE_RATES",
       target |-> "ANALYTICS.MARTS.FACT_EXCHANGE_RATES"]>>

\* what SELECT COUNT(*) can answer
CountValues == {0, 999, 1000}

\* counts = {}: no table looked up yet
NoCounts == [t \in {} |-> 0]

\* counts[table] = value
SetCount(counts, table, value) ==
    [t \in DOMAIN counts \cup {table} |->
        IF t = table THEN value ELSE counts[t]]

\* the except clause of the lookup loop: counts[table] = -1
OnLookupErrorZero(counts, table) == SetCount(counts, table, 0)
OnLookupError(counts, table) == SetCount(counts, table, -1)

\* counts.get(table, -1)
GetCount(counts, table) ==
    IF table \in DOMAIN counts THEN counts[table] ELSE -1

\* passed = src_count == tgt_count and src_count >= 0
RulePassed(src_count, tgt_count) ==
    src_count = tgt_count /\ src_count >= 0

\* all_passed after the loop over the rules: False as soon as one rule
\* has not passed
AllPassedIsLast(passed) == passed[Len(passed)]
AllPassed(passed) == \A n \in DOMAIN passed : passed[n]

IdleValidation ==
    [pc |-> "idle", result |-> "none", i |-> 1, counts |-> NoCounts,
     lookup_failed |-> {}, rule_passed |-> <<>>,
     reconciliation_passed |-> FALSE]

ValidationIdle == validation = IdleValidation

\* validate_row_counts(): counts = {}; with get_snowflake_connection(...)
ValidationStart ==
    /\ validation.pc = "idle"
    /\ \E connects \in BOOLEAN :
          validation' = IF connects
                        THEN [validation EXCEPT !.pc = "lookup",
                                                !.result = "running"]
                        ELSE [validation EXCEPT !.pc = "done",
                                                !.result = "raised"]
    /\ UNCHANGED <<session, txrun>>
    /\ UNCHANGED <<engineVars, ingestVars, chunkVars, orchVars>>

\* one pass of `for table, query in ROW_COUNT_QUERIES.items()`: the query
\* answers with a count, or raises and the table gets the sentinel
Lookup ==
    /\ validation.pc = "lookup"
    /\ validation.i <= Len(ROW_COUNT_TABLES)
    /\ LET table == ROW_COUNT_TABLES[validation.i]
       IN  \/ \E value \in CountValues :
                validation' = [validation EXCEPT
                                 !.counts = SetCount(@, table, value),
                                 !.i = @ + 1]
           \/ validation' = [validation EXCEPT
                               !.counts = OnLookupError(@, table),
                               !.lookup_failed = @ \cup {table},
                               !.i = @ + 1]
    /\ UNCHANGED <<session, txrun>>
    /\ UNCHANGED <<engineVars, ingestVars, chunkVars, orchVars>>

\* after the loop: the connection is closed, the counts are logged, the
\* rules are evaluated in order, counts["_reconciliation_passed"] is set and
\* counts is returned
Reconcile ==
    /\ validation.pc = "lookup"
    /\ validation.i > Len(ROW_COUNT_TABLES)
    /\ LET passed == [n \in DOMAIN RECONCILIATION_RULES |->
                         RulePassed(
                             GetCount(validation.counts,
                                      RECONCILIATION_RULES[n].source),
                             GetCount(validation.counts,
                                      RECONCILIATION_RULES[n].target))]
       IN  validation' = [validation EXCEPT
                            !.rule_passed = passed,
                            !.reconciliation_passed = AllPassed(passed),
                            !.pc = "done", !.result = "returned"]
    /\ UNCHANGED <<session, txrun>>
    /\ UNCHANGED <<engineVars, ingestVars, chunkVars, orchVars>>

-----------------------------------------------------------------------------
(* The staging tables of merge_dataframe, as the sessions of the two
   merging ingestion tasks see them.  A temporary table belongs to the
   session (connection) that created it; its name is the target's name and
   the wall clock at the second. *)

MaxMerges == 3
MaxClock == 2

MERGING_SOURCES == {"market_prices", "exchange_rates"}

\* fqn = f"{db}.{schema}.{table_name}"
Fqn(src) ==
    IF src = "market_prices" THEN "RAW.MARKET_DATA.DAILY_PRICES"
                             ELSE "RAW.EXCHANGE_RATES.DAILY_RATES"

\* temp_table = f"{fqn}_temp_{pd.Timestamp.now().strftime('%Y%m%d%H%M%S')}"
TempTableName(fqn, clock) == <<fqn, "_temp_", clock>>

NoMerge == [id |-> 0, temp_table |-> <<>>]

IdleSession ==
    [clock |-> 0, invocations |-> 0,
     temps |-> {},
     open |-> [src \in MERGING_SOURCES |-> NoMerge],
     obtained |-> {},
     foreign |-> {}]

SessionIdle == session = IdleSession

\* the temporary tables of the session of src that go by this name
TempsNamed(src, name) ==
    {t \in session.temps : t.session = src /\ t.name = name}

\* DROP TABLE IF EXISTS {temp_table}, issued in the session of src
DropTemp(temps, src, name) ==
    {t \in temps : ~(t.session = src /\ t.name = name)}

\* a second goes by
ClockTick ==
    /\ session.clock < MaxClock
    /\ session' = [session EXCEPT !.clock = @ + 1]
    /\ UNCHANGED <<validation, txrun>>
    /\ UNCHANGED <<engineVars, ingestVars, chunkVars, orchVars>>

\* merge_dataframe up to CREATE TEMPORARY TABLE: the name is taken from the
\* clock; the CREATE raises when the session has a table of that name (or
\* for any other reason), and the except handler then drops whatever table
\* of the session goes by the name, unless that DROP raises too
MergeBegin(src) ==
    /\ session.open[src] = NoMerge
    /\ session.invocations < MaxMerges
    /\ LET id == session.invocations + 1
           name == TempTableName(Fqn(src), session.clock)
           there == TempsNamed(src, name)
           began == [session EXCEPT !.invocations = id,
                                    !.obtained = @ \cup {<<id, name>>}]
       IN  \/ /\ there = {}
              /\ session' = [began EXCEPT
                    !.temps = @ \cup {[session |-> src, name |-> name,
                                       owner |-> id]},
                    !.open[src] = [id |-> id, temp_table |-> name]]
           \/ \E cleanupFails \in BOOLEAN :
                session' = [began EXCEPT
                    !.temps = IF cleanupFails THEN @
                              ELSE DropTemp(@, src, name),
                    !.foreign = IF cleanupFails THEN @
                                ELSE @ \cup {<<id, t.owner>> : t \in there}]
    /\ UNCHANGED <<validation, txrun>>
    /\ UNCHANGED <<engineVars, ingestVars, chunkVars, orchVars>>

\* the rest of merge_dataframe: INSERTs, MERGE and DROP on the table of the
\* session that goes by the name; when a statement raises the handler drops
\* the table, unless that DROP raises too
MergeEnd(src) ==
    /\ session.open[src] # NoMerge
    /\ LET call == session.open[src]
           used == TempsNamed(src, call.temp_table)
           touched == {<<call.id, t.owner>> : t \in {u \in used : u.owner # call.id}}
       IN  \E dropped \in BOOLEAN :
             session' = [session EXCEPT
                 !.temps = IF dropped THEN DropTemp(@, src, call.temp_table)
                           ELSE @,
                 !.foreign = @ \cup touched,
                 !.open[src] = NoMerge]
    /\ UNCHANGED <<validation, txrun>>
    /\ UNCHANGED <<engineVars, ingestVars, chunkVars, orchVars>>

-----------------------------------------------------------------------------
(* ingest_transactions (ingestion/sources/ingest_transactions.py): the
   truncate-and-load script, run after run over the same CSV files *)

MaxCsvRows == 2

\* the CSV files of the dataset, as find_csv_files sorts them
CSV_FILES == <<"fraudTest.csv", "fraudTrain.csv">>

\* what load_csv can make of a file: prepared rows, repeated ones included
CsvRows == {r \in Rows : r.v = "a"}
CsvContents == UNION {[1..n -> CsvRows] : n \in 0..MaxCsvRows}

\* TRUNCATE TABLE IF EXISTS
TruncateKeeps(tbl) == tbl
Truncate(tbl) == EmptyTable(DOMAIN tbl)

IdleTx ==
    [pc |-> "idle", result |-> "none", found |-> <<>>,
     data |-> [f \in SeqToSet(CSV_FILES) |-> <<>>],
     i |-> 1, table |-> EmptyTable(Rows),
     prev_result |-> "none", prev_rows |-> 0,
     attempts |-> 0, before |-> EmptyTable(Rows)]

TxIdle == txrun = IdleTx

\* ingest_transactions_task: the call is the first attempt of a task run,
\* or the retry that follows an attempt that raised while retries are left
TxTaskRunOver ==
    \/ txrun.pc = "idle"
    \/ txrun.result = "returned"
    \/ txrun.attempts > LOCAL_TASK_RETRIES

\* the first call finds the data directory as it is: without CSV files, or
\* with the files and their rows, which stay the same from then on
TxDataset ==
    IF txrun.pc = "idle"
    THEN {[found |-> <<>>, data |-> IdleTx.data]}
         \cup {[found |-> CSV_FILES, data |-> d] :
                  d \in [SeqToSet(CSV_FILES) -> CsvContents]}
    ELSE {[found |-> txrun.found, data |-> txrun.data]}

TxSetups == {"ok", "connect_fails", "ddl_fails", "truncate_fails"}

\* ingest_transactions() up to the loop: find_csv_files(), the early return
\* without files, the connection, CREATE TABLE IF NOT EXISTS and TRUNCATE
TxStart ==
    /\ txrun.pc \in {"idle", "done"}
    /\ \E ds \in TxDataset, setup \in TxSetups :
         LET r == [txrun EXCEPT !.found = ds.found, !.data = ds.data,
                                !.i = 1,
                                !.prev_result = txrun.result,
                                !.prev_rows = Size(txrun.table),
                                !.attempts = IF TxTaskRunOver THEN 1
                                             ELSE @ + 1,
                                !.before = IF TxTaskRunOver
                                           THEN txrun.table ELSE @]
         IN  txrun' =
               IF ds.found = <<>>
               THEN [r EXCEPT !.pc = "done", !.result = "returned"]
               ELSE IF setup # "ok"
               THEN [r EXCEPT !.pc = "done", !.result = "raised"]
               ELSE [r EXCEPT !.pc = "load", !.result = "running",
                              !.table = Truncate(@)]
    /\ UNCHANGED <<validation, session>>
    /\ UNCHANGED <<engineVars, ingestVars, chunkVars, orchVars>>

\* one pass of `for csv_file in csv_files`: load_csv, then write_dataframe
\* in append mode unless the DataFrame is empty; after the last file the
\* script returns
TxLoad ==
    /\ txrun.pc = "load"
    /\ IF txrun.i <= Len(txrun.found)
       THEN \E readFails \in BOOLEAN :
            \E failAt \in 0..MaxCsvRows :
              LET df == txrun.data[txrun.found[txrun.i]]
                  out == write_dataframe(txrun.table, df, "append", failAt)
              IN  /\ failAt <= Len(WritePlan(df, "append"))
                  /\ readFails => failAt = 0
                  /\ txrun' =
                       IF readFails
                       THEN [txrun EXCEPT !.pc = "done", !.result = "raised"]
                       ELSE IF out.result = "raised"
                       THEN [txrun EXCEPT !.pc = "done", !.result = "raised",
                                          !.table = out.target]
                       ELSE [txrun EXCEPT !.table = out.target, !.i = @ + 1]
       ELSE txrun' = [txrun EXCEPT !.pc = "done", !.result = "returned"]
    /\ UNCHANGED <<validation, session>>
    /\ UNCHANGED <<engineVars, ingestVars, chunkVars, orchVars>>

-----------------------------------------------------------------------------
(* The state before anything has run *)

SideIdle == ValidationIdle /\ SessionIdle /\ TxIdle

-----------------------------------------------------------------------------
(* Specifications *)

\* the merge engine alone
Init == EngineInit /\ IngestIdle /\ ChunkerIdle /\ OrchIdle /\ SideIdle

Next == CallMerge \/ CallWrite

Spec == Init /\ [][Next]_vars

\* the incremental ingestion scripts, run one at a time
IngestInit ==
    /\ IngestIdle /\ target = EmptyTable(Rows) /\ last = NoCall
    /\ ChunkerIdle /\ OrchIdle /\ SideIdle

IngestNext ==
    \/ Tick
    \/ FxStart \/ FxResolve \/ FxCheck \/ FxChunk
    \/ MpStart \/ MpResolve \/ MpFetchMerge

SpecIngest == IngestInit /\ [][IngestNext]_vars

\* the chunk loop of the exchange-rate script on a long calendar
ChunkInit ==
    /\ ChunkerIdle /\ IngestIdle /\ OrchIdle /\ SideIdle
    /\ target = EmptyTable(Rows) /\ last = NoCall

ChunkNext == ChunkerStart \/ ChunkerStep

SpecChunk == ChunkInit /\ [][ChunkNext]_vars

\* one run of the full pipeline
PipelineInit ==
    /\ OrchIdle /\ IngestIdle /\ ChunkerIdle /\ SideIdle
    /\ target = EmptyTable(Rows) /\ last = NoCall

PipelineNext ==
    \/ PipelineStart
    \/ Submit
    \/ \E src \in SeqToSet(SOURCES) : TaskStart(src) \/ TaskEnd(src)
    \/ Await
    \/ AfterIngestion
    \/ DbtStart \/ DbtEnd
    \/ AfterDbt
    \/ Validate
    \/ Summary
    \/ Finish

SpecPipeline == PipelineInit /\ [][PipelineNext]_vars

\* the same run when every external call returns or raises and every thread
\* that can take a step is scheduled: a step that stays possible is taken
SpecPipelineLive == SpecPipeline /\ WF_vars(PipelineNext)

\* one run of validate_row_counts
ValidationInit ==
    /\ SideIdle /\ OrchIdle /\ IngestIdle /\ ChunkerIdle
    /\ target = EmptyTable(Rows) /\ last = NoCall

ValidationNext == ValidationStart \/ Lookup \/ Reconcile

SpecValidation == ValidationInit /\ [][ValidationNext]_vars

\* the merges of the two API-backed ingestion tasks, side by side
StagingInit == ValidationInit

StagingNext ==
    \/ ClockTick
    \/ \E src \in MERGING_SOURCES : MergeBegin(src) \/ MergeEnd(src)

SpecStaging == StagingInit /\ [][StagingNext]_vars

\* runs of ingest_transactions, one after the other
TxInit == ValidationInit

TxNext == TxStart \/ TxLoad

SpecTx == TxInit /\ [][TxNext]_vars

-----------------------------------------------------------------------------
(* Properties of the merge engine *)

\* rows of table tbl that agree with row s on the columns keys
CountOnKeys(tbl, s, keys) ==
    SumOver(tbl, {t \in DOMAIN tbl : \A c \in keys : t[c] = s[c]})

\* the key of row t occurs in no row of the DataFrame
KeyAbsent(t, df, keys) ==
    \A i \in DOMAIN df : \E c \in keys : t[c] # df[i][c]

\* C1: a successful merge that repeats the previous successful merge (same
\* non-empty DataFrame, same non-empty keys) leaves the table as the first
\* call left it and inserts no row.
C1_MergeIdempotent ==
    (last.op = "merge" /\ last.rerun /\ last.result = "returned")
        => /\ target = last.pre
           /\ Size(target) = Size(last.pre)

C1_Witness ==
    /\ last.op = "merge" /\ last.rerun /\ last.result = "returned"
    /\ Len(last.df) = 2
    /\ Size(target) = 2

\* C2: after a successful merge every staging row whose key matched a target
\* row has overwritten the non-key columns of the matching rows (none of which
\* was lost), and every staging row whose key was absent is now in the table.
C2_UpsertPostcondition ==
    (last.op = "merge" /\ last.result = "returned" /\ last.df # <<>>)
        => \A i \in DOMAIN last.df :
              LET s == last.df[i] IN
              IF CountOnKeys(last.pre, s, last.keys) > 0
              THEN /\ CountOnKeys(target, s, last.keys)
                        = CountOnKeys(last.pre, s, last.keys)
                   /\ \A t \in Rows :
                        (target[t] > 0 /\ \A c \in last.keys : t[c] = s[c])
                            => \A c \in COLUMNS \ last.keys : t[c] = s[c]
              ELSE target[s] >= 1

C2_Witness ==
    /\ last.op = "merge" /\ last.result = "returned"
    /\ \E i, j \in DOMAIN last.df :
          /\ CountOnKeys(last.pre, last.df[i], last.keys) > 0
          /\ last.pre[last.df[i]] = 0
          /\ CountOnKeys(last.pre, last.df[j], last.keys) = 0

\* C3: a merge call, successful or failed, leaves every row whose key is
\* absent from the DataFrame unchanged, deletes no row (per key the number of
\* rows never drops) and never decreases the row count.
C3_MergeNeverDestructive ==
    last.op = "merge"
        => /\ \A t \in Rows :
                KeyAbsent(t, last.df, last.keys) => target[t] = last.pre[t]
           /\ \A t \in Rows :
                CountOnKeys(target, t, last.keys)
                    >= CountOnKeys(last.pre, t, last.keys)
           /\ Size(target) >= Size(last.pre)

C3_Witness ==
    /\ last.op = "merge" /\ last.result = "returned" /\ last.keys = {"k"}
    /\ target # last.pre
    /\ \E t \in Rows : last.pre[t] > 0 /\ KeyAbsent(t, last.df, last.keys)

\* C4 (as claimed): a finished merge call never leaves its staging table
\* behind.
C4_StagingAlwaysDropped ==
    last.op = "merge" => ~last.staging

\* the batch is reflected in the table: every DataFrame row is there
BatchVisible ==
    \A i \in DOMAIN last.df : target[last.df[i]] >= 1

\* C5 (as claimed): a merge call either returns with the whole batch in the
\* table, or raises with the table as it was before the call.
C5_MergeAllOrNothing ==
    last.op = "merge"
        => \/ last.result = "returned" /\ BatchVisible
           \/ last.result = "raised" /\ target = last.pre

\* C6 (as claimed): with an empty merge-key set every call, the one with an
\* empty DataFrame included, raises the usage error before any I/O.
C6_EmptyKeysAlwaysRaise ==
    (last.op = "merge" /\ last.keys = {})
        => /\ last.result = "raised" /\ last.error = "ValueError"
           /\ ~last.cursor /\ last.stmts = <<>>

\* C6 (amended): with an empty merge-key set and a non-empty DataFrame the call
\* raises the usage error with no cursor opened, no statement issued and the
\* table untouched; with an empty DataFrame it returns 0, also without I/O.
C6_EmptyKeysRaiseUnlessEmptyBatch ==
    (last.op = "merge" /\ last.keys = {})
        => /\ ~last.cursor /\ last.stmts = <<>> /\ target = last.pre
           /\ IF last.df = <<>>
              THEN last.result = "returned" /\ last.value = 0
              ELSE last.result = "raised" /\ last.error = "ValueError"

C6_Witness ==
    /\ last.op = "merge" /\ last.keys = {} /\ last.df # <<>>
    /\ last.result = "raised"
    /\ Size(target) > 0

-----------------------------------------------------------------------------
(* Properties of the watermark resolvers and the incremental scripts *)

\* the rows a table holds
Held(tbl) == {r \in DOMAIN tbl : tbl[r] > 0}

\* str is the "%Y-%m-%d" string of the day after the latest date of rows,
\* or the configured default when there is no row
IsWatermarkOf(str, rows) ==
    IF rows = {}
    THEN str = <<2020, 1, 1>>
    ELSE \E r \in rows :
            /\ \A q \in rows : q.date <= r.date
            /\ ToDatetime(str) = r.date + 1
            /\ Strftime(ToDatetime(str)) = str

\* C8: whenever a run has just resolved its start date from a query that
\* succeeded, the start date is the default if the table (for market prices:
\* the rows of the ticker) is empty and the day after the latest loaded date
\* otherwise, as the table stands in that run.
C8_WatermarkResolution ==
    /\ (run.pc = "fx_check" /\ ~run.wm_failed)
          => IsWatermarkOf(run.start_date, Held(fx_table))
    /\ (run.pc = "mp_fetch" /\ ~run.wm_failed)
          => IsWatermarkOf(run.start_date,
                           {r \in Held(mp_table) :
                               r.ticker = MARKET_TICKERS[run.i]})

C8_Witness ==
    /\ run.pc = "mp_fetch" /\ ~run.wm_failed /\ run.i = 2
    /\ run.start_date # DEFAULT_START_DATE
    /\ \E r \in Held(mp_table) :
          r.ticker = MARKET_TICKERS[1] /\ ToDatetime(run.start_date) <= r.date

\* C9: a failed watermark query never makes a script raise: the run goes on
\* with the connection open and the default start date.
C9_QueryFailureFallsBack ==
    /\ run.raised_at # "resolve"
    /\ (run.pc \in {"fx_check", "mp_fetch"} /\ run.wm_failed)
          => /\ run.result = "running"
             /\ run.conn = "open"
             /\ run.start_date = DEFAULT_START_DATE

C9_Witness ==
    /\ run.src = "fx" /\ run.wm_failed
    /\ run.result = "returned"
    /\ Len(run.fetches) > 0
    /\ Held(fx_table) # {}

\* C10 (as claimed): no source ever issues a fetch request whose start date is
\* greater than or equal to its end date, and a run that finds its data up to
\* date returns normally without having fetched.
C10_NoFetchWhenUpToDate ==
    /\ \A n \in DOMAIN run.fetches :
          ~StrGE(run.fetches[n].start, run.fetches[n].end)
    /\ run.noop => (run.result = "returned" /\ run.fetches = <<>>)

\* C12 (as claimed): a script run in which a fetch met a network, timeout or
\* parse failure ends by raising, so that the task attempt that ran it fails
\* (and is retried) and is never reported as completed.
C12_FetchFailureFailsAttempt ==
    (run.pc = "done" /\ run.fetch_failed) => TaskAttempt(run) = "failed"

-----------------------------------------------------------------------------
(* Properties of the chunk loop *)

\* the days a request start..end asks for: both ends when the range is read
\* as closed (the way the rates API reads it), the end left out when it is
\* read as [start, end)
FirstDay(req) == ToDatetime(req.start)
LastDay(req, closed) ==
    IF closed THEN ToDatetime(req.end) ELSE ToDatetime(req.end) - 1
DaysOf(req, closed) == FirstDay(req)..LastDay(req, closed)

\* the requests of a finished loop are consecutive and non-overlapping, each
\* asks for at most MAX_DAYS_PER_REQUEST days, and every day of the requested
\* range start_date..end_date (read the same way as the requests) is in
\* exactly one of them
ChunksPartition(c, closed) ==
    LET f == c.fetches
        requested == DaysOf(Request("", c.start_date, c.end_date), closed)
    IN  /\ \A n \in 1..(Len(f) - 1) :
              FirstDay(f[n + 1]) = LastDay(f[n], closed) + 1
        /\ \A n \in DOMAIN f :
              Cardinality(DaysOf(f[n], closed)) <= MAX_DAYS_PER_REQUEST
        /\ \A d \in requested :
              Cardinality({n \in DOMAIN f : d \in DaysOf(f[n], closed)}) = 1
        /\ \A n \in DOMAIN f : DaysOf(f[n], closed) \subseteq requested

\* C11 (as claimed): when the chunk loop has run to its end for start < end,
\* the sub-ranges it requested are consecutive and non-overlapping, each
\* spans at most MAX_DAYS_PER_REQUEST days, and together they cover every
\* day of the requested range exactly once, under one reading of a range
\* (closed, or [start, end)) at least.
C11_ChunksPartitionRange ==
    (chunker.pc = "done" /\ chunker.result = "returned")
        => \/ ChunksPartition(chunker, TRUE)
           \/ ChunksPartition(chunker, FALSE)

-----------------------------------------------------------------------------
(* Properties of the orchestrator *)

\* the event has been logged / the task has been called in this run
Occurs(e) == \E n \in DOMAIN pipeline.events : pipeline.events[n] = e

\* a precedes b among the events of this run
Precedes(a, b) ==
    \E m, n \in DOMAIN pipeline.events :
        m < n /\ pipeline.events[m] = a /\ pipeline.events[n] = b

IngestionFailed == pipeline.ingestion_flow.result = "raised"
TransformFailed == \E step \in DOMAIN dbt : dbt[step].state = "failed"
TransformStarted == \E step \in DOMAIN dbt : dbt[step].attempts > 0

\* C13 (as claimed): when ingestion_flow has ended with one source failed
\* (retries used up) and another completed, it has returned a result that
\* shows the second as completed and does not show the first as completed.
C13_FailedSourceIsolated ==
    \A a, b \in DOMAIN tasks :
        (/\ pipeline.ingestion_flow.pc = "done"
         /\ tasks[a].state = "failed" /\ tasks[b].state = "completed")
            => /\ pipeline.ingestion_flow.result = "returned"
               /\ \E n \in DOMAIN pipeline.ingestion_flow.results :
                      pipeline.ingestion_flow.results[n] = Report(b)
               /\ \A n \in DOMAIN pipeline.ingestion_flow.results :
                      pipeline.ingestion_flow.results[n].source # a

\* C14 (as claimed): a finished run in which some source completed has run
\* the transform stage: transform is skipped only when every source failed.
C14_PartialIngestionRunsTransform ==
    (/\ pipeline.pc = "done"
     /\ \E b \in DOMAIN tasks : tasks[b].state = "completed")
        => TransformStarted

\* C15: once ingestion_flow has raised, no dbt task is ever called and the
\* run ends by raising the exception of the ingestion task that failed.
C15_IngestionFailureSkipsTransform ==
    IngestionFailed
        => /\ ~TransformStarted
           /\ \A step \in DOMAIN dbt : dbt[step].state = "none"
           /\ pipeline.dbt_flow.pc = "none"
           /\ pipeline.pc \in {"ingestion", "done"}
           /\ pipeline.pc = "done"
                 => /\ pipeline.result = "raised"
                    /\ pipeline.error = pipeline.ingestion_flow.error
                    /\ pipeline.error \in DOMAIN tasks
                    /\ tasks[pipeline.error].state = "failed"

C15_Witness ==
    /\ pipeline.pc = "done" /\ IngestionFailed
    /\ pipeline.error = "market_prices"
    /\ tasks["transactions"].state = "completed"
    /\ tasks["market_prices"].attempts = API_TASK_RETRIES + 1

\* C16: when a dbt task has failed, the run does not end before
\* validate_row_counts and then log_pipeline_summary have run, and it ends by
\* raising (RuntimeError), never by returning.
C16_TransformFailureRaisedAfterSummary ==
    TransformFailed
        => /\ pipeline.result # "returned"
           /\ pipeline.result = "raised"
                => /\ pipeline.error = "RuntimeError"
                   /\ Precedes("validate_row_counts", "log_pipeline_summary")
           /\ pipeline.pc = "done" => pipeline.result = "raised"

C16_Witness ==
    /\ pipeline.pc = "done" /\ pipeline.result = "raised"
    /\ dbt["dbt_run_marts"].state = "failed"
    /\ dbt["dbt_test"].state = "none"
    /\ Occurs("log_pipeline_summary")

\* C17: a run that has ended, by returning or by raising, has logged a
\* summary: the pipeline summary, or the early-exit summary when ingestion
\* failed.
C17_SummaryBeforeTermination ==
    (pipeline.pc = "done" \/ pipeline.result \in {"returned", "raised"})
        => \/ Occurs("log_pipeline_summary")
           \/ Occurs("_log_failure_summary")

C17_Witness ==
    /\ pipeline.pc = "done" /\ IngestionFailed
    /\ Occurs("_log_failure_summary")
    /\ ~Occurs("log_pipeline_summary")

TerminalState ==
    IF pipeline.result = "raised" THEN "failed"
    ELSE IF pipeline.summary = "COMPLETED" THEN "completed"
    ELSE IF pipeline.summary = "COMPLETED WITH WARNINGS"
    THEN "completed_with_warnings"
    ELSE "none"

\* C19: a run that has ended is failed, completed_with_warnings or completed;
\* failed exactly when ingestion_flow or a dbt task failed,
\* completed_with_warnings exactly when neither failed and the reconciliation
\* did not pass (validate_row_counts raising included), completed exactly
\* when neither failed, validation ran to its end and every rule passed.
C19_TerminalClassification ==
    pipeline.pc = "done"
        => LET hard == IngestionFailed \/ TransformFailed
               passed == pipeline.reconciliation = "passed"
           IN  /\ TerminalState \in
                     {"completed", "completed_with_warnings", "failed"}
               /\ TerminalState = "failed" <=> hard
               /\ TerminalState = "completed_with_warnings"
                     <=> (~hard /\ ~passed)
               /\ TerminalState = "completed"
                     <=> (/\ ~hard /\ passed
                          /\ pipeline.stage_results.ingestion = "completed"
                          /\ pipeline.stage_results.dbt = "completed"
                          /\ pipeline.stage_results.validation = "completed")

C19_Witness ==
    /\ pipeline.pc = "done" /\ pipeline.result = "returned"
    /\ pipeline.reconciliation = "raised"
    /\ TerminalState = "completed_with_warnings"

\* C20: a dbt task is called only when every earlier one has completed, at
\* most one of them is in progress at any time, a task fails only after its
\* last retry, and after a failed task no later one is called.
C20_DbtStepsInOrder ==
    /\ \A k \in DOMAIN DBT_STEPS :
          LET t == dbt[DBT_STEPS[k]]
          IN  /\ t.state # "none"
                    => \A j \in 1..(k - 1) :
                          dbt[DBT_STEPS[j]].state = "completed"
              /\ t.state = "failed"
                    => /\ t.attempts = DbtRetries(DBT_STEPS[k]) + 1
                       /\ \A j \in (k + 1)..Len(DBT_STEPS) :
                             /\ dbt[DBT_STEPS[j]].state = "none"
                             /\ dbt[DBT_STEPS[j]].attempts = 0
    /\ Cardinality({step \in DOMAIN dbt :
                       dbt[step].state \in {"running", "retrying"}}) <= 1

C20_Witness ==
    /\ dbt["dbt_run_staging"].attempts = 2
    /\ dbt["dbt_snapshot"].state = "failed"
    /\ pipeline.pc = "done"

\* C21: dbt_test is attempted at most once and never waits for a retry; when
\* its attempt fails the task is failed at once and dbt_flow (the transform
\* stage) ends by raising.
C21_TestNeverRetried ==
    LET t == dbt["dbt_test"]
    IN  /\ t.attempts <= 1
        /\ t.state # "retrying"
        /\ t.state = "failed"
              => /\ t.attempts = 1
                 /\ pipeline.dbt_flow.pc = "done"
                 /\ pipeline.dbt_flow.result = "raised"

C21_Witness ==
    /\ dbt["dbt_test"].state = "failed"
    /\ dbt["dbt_run_marts"].attempts = 2
    /\ pipeline.pc = "done" /\ pipeline.result = "raised"

\* the attempts of the ingestion tasks stay within their classes' bounds: 2
\* for transactions, 4 for the API tasks; a task fails only when they are
\* used up; the API tasks wait longer between attempts and are allowed more
\* attempts than the transactions task
RetriesBounded ==
    LET tx == tasks["transactions"]
    IN  /\ tx.attempts <= 2
        /\ tx.state = "failed" => tx.attempts = 2
        /\ tx.state = "retrying" => tx.delay = 30
        /\ \A a \in {"market_prices", "exchange_rates"} :
              /\ tasks[a].attempts <= 4
              /\ tasks[a].state = "failed" => tasks[a].attempts = 4
              /\ tasks[a].state = "retrying" => tasks[a].delay = 60
              /\ (tasks[a].state = "failed" /\ tx.state = "failed")
                    => tasks[a].attempts > tx.attempts
              /\ (tasks[a].delay > 0 /\ tx.delay > 0)
                    => tasks[a].delay > tx.delay

\* an attempt starts only for a task not yet attempted or waiting after a
\* failed attempt; a task in a final state stays as it is
RetriedOnlyAfterFailure ==
    \A src \in DOMAIN tasks :
        /\ tasks'[src].attempts # tasks[src].attempts
              => /\ tasks'[src].attempts = tasks[src].attempts + 1
                 /\ \/ tasks[src].state = "pending" /\ tasks[src].attempts = 0
                    \/ tasks[src].state = "retrying"
        /\ Final(tasks[src]) => tasks'[src] = tasks[src]

\* C22: in one ingestion stage the transactions task is attempted at most 2
\* times and each API task at most 4 times, a task is attempted again only
\* after a failed attempt, and the API class has the higher retry count and
\* the longer retry delay.
C22_DifferentiatedBoundedRetries ==
    []RetriesBounded /\ [][RetriedOnlyAfterFailure]_vars

C22_Witness ==
    /\ tasks["transactions"].state = "failed"
    /\ tasks["transactions"].attempts = 2
    /\ tasks["exchange_rates"].state = "failed"
    /\ tasks["exchange_rates"].attempts = 4
    /\ tasks["market_prices"].state = "completed"
    /\ tasks["market_prices"].attempts = 3

-----------------------------------------------------------------------------
(* Properties of the reconciliation *)

\* C23: when validate_row_counts has returned, each rule is recorded as
\* passed exactly when the count of its source equals the count of its target
\* and is not negative, and _reconciliation_passed is true exactly when
\* every rule passed.
C23_ReconciliationVerdict ==
    (validation.pc = "done" /\ validation.result = "returned")
        => /\ DOMAIN validation.rule_passed = DOMAIN RECONCILIATION_RULES
           /\ \A n \in DOMAIN RECONCILIATION_RULES :
                 LET s == validation.counts[RECONCILIATION_RULES[n].source]
                     t == validation.counts[RECONCILIATION_RULES[n].target]
                 IN  validation.rule_passed[n] <=> (s = t /\ s >= 0)
           /\ validation.reconciliation_passed
                 <=> (\A n \in DOMAIN RECONCILIATION_RULES :
                         validation.rule_passed[n])

\* 1000 vs 999 fails while 1000 vs 1000 and 0 vs 0 pass
C23_Witness ==
    /\ validation.pc = "done" /\ validation.result = "returned"
    /\ validation.counts["ANALYTICS.STAGING.STG_TRANSACTIONS"] = 1000
    /\ validation.counts["ANALYTICS.MARTS.FACT_TRANSACTIONS"] = 999
    /\ validation.counts["ANALYTICS.STAGING.STG_MARKET_PRICES"] = 0
    /\ validation.counts["ANALYTICS.MARTS.FACT_DAILY_PRICES"] = 0
    /\ validation.counts["ANALYTICS.STAGING.STG_EXCHANGE_RATES"] = 1000
    /\ validation.counts["ANALYTICS.MARTS.FACT_EXCHANGE_RATES"] = 1000
    /\ validation.rule_passed = <<FALSE, TRUE, TRUE>>
    /\ ~validation.reconciliation_passed

\* C24: a lookup that raised leaves -1 for its table and nothing else: the
\* lookups go on to the last table and the task returns; every rule on a
\* table whose lookup raised fails, -1 against -1 included, so that the
\* reconciliation does not pass, whereas 0 against 0 passes.
C24_FailedLookupIsSentinel ==
    /\ \A t \in DOMAIN validation.counts :
          t \in validation.lookup_failed <=> validation.counts[t] = -1
    /\ validation.pc = "lookup" => validation.result = "running"
    /\ (validation.pc = "done" /\ validation.result = "returned")
          => /\ DOMAIN validation.counts = SeqToSet(ROW_COUNT_TABLES)
             /\ \A n \in DOMAIN RECONCILIATION_RULES :
                   LET r == RECONCILIATION_RULES[n]
                   IN  /\ (r.source \in validation.lookup_failed
                             \/ r.target \in validation.lookup_failed)
                            => /\ ~validation.rule_passed[n]
                               /\ ~validation.reconciliation_passed
                       /\ (/\ validation.counts[r.source] = 0
                           /\ validation.counts[r.target] = 0)
                            => validation.rule_passed[n]

C24_Witness ==
    /\ validation.pc = "done" /\ validation.result = "returned"
    /\ validation.lookup_failed =
          {"ANALYTICS.STAGING.STG_TRANSACTIONS",
           "ANALYTICS.MARTS.FACT_TRANSACTIONS"}
    /\ validation.counts["ANALYTICS.STAGING.STG_MARKET_PRICES"] = 0
    /\ validation.counts["ANALYTICS.MARTS.FACT_DAILY_PRICES"] = 0
    /\ validation.rule_passed = <<FALSE, TRUE, TRUE>>

-----------------------------------------------------------------------------
(* Properties of the staging tables *)

\* C25: no two invocations of merge_dataframe obtain the same staging table
\* name, and no invocation reads, writes or drops a staging table that
\* another invocation created.
C25_StagingAreaExclusive ==
    /\ \A a, b \in session.obtained : a[2] = b[2] => a[1] = b[1]
    /\ session.foreign = {}

-----------------------------------------------------------------------------
(* Hard failures and the terminal status *)

\* a merge or load failed for a source (its task failed) or for a sub-item
\* of it (a ticker whose merge raised, in the attempt that counted), or
\* validate_row_counts raised
HardFailure ==
    \/ \E src \in SeqToSet(SOURCES) :
          tasks[src].state = "failed"
             \/ (tasks[src].state = "completed" /\ tasks[src].caught)
    \/ pipeline.reconciliation = "raised"

\* C26: a run in which a merge or load failed for a source or a sub-item,
\* or in which the validation raised, does not end as completed.
C26_HardFailureSurfaces ==
    (pipeline.pc = "done" /\ HardFailure) => TerminalState # "completed"

-----------------------------------------------------------------------------
(* The exchange-rate source, end to end *)

\* the rates of the days of [DEFAULT_START_DATE, end_date)
RatesBefore(end_date) ==
    {r \in FxRows : Day0 <= r.date /\ r.date < ToDatetime(end_date)}

\* the table that holds each row of a set once and nothing else
OnceEach(rows) == [r \in FxRows |-> IF r \in rows THEN 1 ELSE 0]

\* a run of ingest_exchange_rates that found the table empty (its watermark
\* query answered NULL), fetched the rates of every day of [S, N) and
\* returned leaves exactly those rows, once each
LoadedFromEmpty ==
    (/\ run.src = "fx" /\ run.pc = "done" /\ run.result = "returned"
     /\ ~run.wm_failed /\ run.start_date = DEFAULT_START_DATE
     /\ ToDatetime(run.end_date) > Day0
     /\ run.fetched = RatesBefore(run.end_date))
        => fx_table = OnceEach(RatesBefore(run.end_date))

\* a run that finds those rows in the table at the same run date N and whose
\* watermark query succeeds has start >= end: it returns from the check,
\* without a fetch and without touching the table
RerunIsNoop ==
    (/\ run.src = "fx" /\ run.pc = "fx_check" /\ run' # run
     /\ ~run.wm_failed
     /\ ToDatetime(run.end_date) > Day0
     /\ fx_table = OnceEach(RatesBefore(run.end_date)))
        => /\ StrGE(run.start_date, run.end_date)
           /\ run'.pc = "done" /\ run'.result = "returned" /\ run'.noop
           /\ run'.fetches = <<>> /\ run'.fetched = {}
           /\ fx_table' = fx_table

\* C27: from an empty table, a run at date N > S whose fetch returns the
\* rates of the days of [S, N) leaves exactly those rows, one per
\* (base_currency, target_currency, date); a further run at the same N
\* issues no fetch and leaves the table as it is.
C27_IncrementalEndToEnd == []LoadedFromEmpty /\ [][RerunIsNoop]_vars

\* the second run at N = S + 2 days has returned without a fetch
C27_Witness ==
    /\ run.src = "fx" /\ run.pc = "done" /\ run.noop /\ ~run.wm_failed
    /\ run.fetches = <<>>
    /\ ToDatetime(run.end_date) = Day0 + 2
    /\ fx_table = OnceEach(RatesBefore(run.end_date))

-----------------------------------------------------------------------------
(* Properties of the transaction load *)

\* the rows of the CSV files, each as often as the files hold it
RECURSIVE CsvTable(_)
CsvTable(k) ==
    IF k = 0 THEN EmptyTable(Rows)
    ELSE InsertRows(CsvTable(k - 1), txrun.data[txrun.found[k]])

\* C28: whenever a run of ingest_transactions has returned, the table holds
\* the rows of the CSV files, each once per occurrence in the files, whatever
\* the runs before it did: the state a single run leaves.
C28_TruncateAndLoadIdempotent ==
    (txrun.pc = "done" /\ txrun.result = "returned")
        => txrun.table = CsvTable(Len(txrun.found))

\* a run has returned after a run that failed partway through the load
C28_Witness ==
    /\ txrun.pc = "done" /\ txrun.result = "returned"
    /\ txrun.prev_result = "raised"
    /\ 0 < txrun.prev_rows /\ txrun.prev_rows < Size(txrun.table)
    /\ \A f \in SeqToSet(CSV_FILES) : txrun.data[f] # <<>>

-----------------------------------------------------------------------------
(* The watermark and the chunks that failed *)

\* day d lies in a chunk whose fetch was answered
Answered(d) == \E c \in chunker.answered : c[1] <= d /\ d <= c[2]

\* C29: every day from the default start to the watermark lies in a chunk
\* whose fetch succeeded, and the watermark is before every chunk whose
\* fetch failed.
C29_NoWatermarkGap ==
    chunker.watermark # None
        => /\ \A d \in Day0..Max(chunker.watermark) : Answered(d)
           /\ \A c \in chunker.failed : Max(chunker.watermark) < c[1]

-----------------------------------------------------------------------------
(* The summary and the terminal status *)

\* C30: a run that ends failed because a dbt task failed has not had
\* log_pipeline_summary report COMPLETED or COMPLETED WITH WARNINGS.
C30_SummaryAgreesWithStatus ==
    (pipeline.pc = "done" /\ pipeline.result = "raised" /\ TransformFailed)
        => pipeline.summary \notin {"COMPLETED", "COMPLETED WITH WARNINGS"}

-----------------------------------------------------------------------------
(* A transaction load that fails *)

\* C31: when ingest_transactions has raised on the last attempt of its task,
\* the table holds what it held before the task ran.
C31_FailedLoadKeepsData ==
    (/\ txrun.pc = "done" /\ txrun.result = "raised"
     /\ txrun.attempts = LOCAL_TASK_RETRIES + 1)
        => txrun.table = txrun.before

-----------------------------------------------------------------------------
(* Key uniqueness under merges *)

\* at most one row of the table per value of the merge key
KeyUnique(tbl, merge_keys) ==
    /\ \A r \in DOMAIN tbl : tbl[r] <= 1
    /\ \A a, b \in DOMAIN tbl :
          (tbl[a] > 0 /\ tbl[b] > 0 /\ Matches(a, b, merge_keys)) => a = b

\* the rows of the batch have pairwise distinct merge keys
BatchDistinct(df, merge_keys) ==
    \A i, j \in DOMAIN df : i # j => ~Matches(df[i], df[j], merge_keys)

MergeKeepsKeysUnique ==
    (/\ last'.op = "merge"
     /\ KeyUnique(target, last'.keys)
     /\ BatchDistinct(last'.df, last'.keys))
        => KeyUnique(target', last'.keys)

\* C32: a call of merge_dataframe, whether it returns or raises, that finds
\* at most one row per merge key in the target and is given a batch with
\* pairwise distinct keys leaves at most one row per merge key.
C32_KeyUniquenessPreserved == [][MergeKeepsKeysUnique]_vars

\* a merge has returned whose batch overlapped the target: one key updated,
\* one inserted
C32_Witness ==
    /\ last.op = "merge" /\ last.result = "returned" /\ last.keys = {"k"}
    /\ Len(last.df) = 2
    /\ KeyUnique(last.pre, {"k"}) /\ Size(last.pre) = 1
    /\ \E r \in DOMAIN last.pre, i \in DOMAIN last.df :
          last.pre[r] > 0 /\ r.k = last.df[i].k /\ r.v # last.df[i].v
    /\ KeyUnique(target, {"k"}) /\ Size(target) = 2

-----------------------------------------------------------------------------
(* Ingestion and the stages after it *)

\* a dbt task has been started, or validate_row_counts or
\* log_pipeline_summary has been called, or one of them is about to be
AfterIngestionStage ==
    \/ TransformStarted
    \/ Occurs("validate_row_counts") \/ Occurs("log_pipeline_summary")
    \/ pipeline.pc \in {"dbt", "validation", "summary", "final"}

\* C33: whenever a transform sub-step, the validation or the summary has
\* started or is next, each of the three ingestion tasks has terminated, and
\* terminated as completed: none is pending, running or waiting for a retry.
C33_TransformAfterIngestion ==
    AfterIngestionStage
        => \A src \in SeqToSet(SOURCES) : tasks[src].state = "completed"

\* the first dbt task is running after an ingestion in which a source needed
\* a retry
C33_Witness ==
    /\ dbt["dbt_run_staging"].state = "running"
    /\ \A src \in SeqToSet(SOURCES) : tasks[src].state = "completed"
    /\ tasks["exchange_rates"].attempts = 2

-----------------------------------------------------------------------------
(* The connection of an ingestion script *)

\* the script is inside its with-block, about to query, fetch or merge
InsideWith ==
    run.pc \in {"fx_resolve", "fx_check", "fx_loop", "mp_resolve", "mp_fetch"}

ConnectionClosedOnce ==
    /\ run.closes <= 1
    /\ InsideWith => (run.conn = "open" /\ run.closes = 0)
    /\ (run.pc = "done" /\ run.raised_at # "connect")
          => (run.conn = "closed" /\ run.closes = 1)
    /\ (run.pc = "done" /\ run.raised_at = "connect")
          => (run.conn = "none" /\ run.closes = 0)

\* a request is issued or a table changes only on an open connection
WorkOnOpenConnection ==
    (\/ fx_table' # fx_table \/ mp_table' # mp_table
     \/ (run'.fetches # run.fetches /\ run'.fetches # <<>>))
        => (run.conn = "open" /\ run.closes = 0)

\* C34: the connection of a script run is closed exactly once when the
\* with-block is left, whether by the end of the block, by the early return
\* of an up-to-date source or by an exception, never before, and nothing is
\* fetched, queried or merged after it; a connection that could not be opened
\* is not closed.
C34_ConnectionClosedExactlyOnce ==
    []ConnectionClosedOnce /\ [][WorkOnOpenConnection]_vars

\* the early return of an up-to-date exchange-rate source has left the block
\* with the connection closed
C34_Witness ==
    /\ run.pc = "done" /\ run.conn = "closed" /\ run.closes = 1
    /\ run.src = "fx" /\ run.noop /\ fx_table # EmptyTable(FxRows)

-----------------------------------------------------------------------------
(* Termination *)

\* no task makes more attempts than its retries allow
AttemptsBounded ==
    /\ \A src \in SeqToSet(SOURCES) :
          tasks[src].attempts <= IngestionRetries(src) + 1
    /\ \A step \in SeqToSet(DBT_STEPS) :
          dbt[step].attempts <= DbtRetries(step) + 1

\* full_pipeline_flow has returned or raised
PipelineTerminated == pipeline.pc = "done" /\ pipeline.result \in {"returned", "raised"}

ChunkLoopAdvances ==
    [][(chunker.pc = "loop" /\ chunker'.pc = "loop")
          => /\ chunker'.chunk_start > chunker.chunk_start
             /\ chunker.chunk_start < ToDatetime(chunker.end_date)]_vars

====
